---- MODULE Spec2Model ----
(***************************************************************************)
(* plot_bolometric_curve (src/short_plateau.py) as a state machine.        *)
(*                                                                         *)
(* Strings (paths, file names, glob patterns) are sequences of character   *)
(* codes, so that list.sort(), os.path.join, os.path.basename and the glob *)
(* match are computed on the characters.  What the function prints and     *)
(* shows is recorded, in order, as a sequence of events in out.            *)
(***************************************************************************)
EXTENDS Integers, Sequences, FiniteSets, TLC

\* Bounds of the model.
MaxFiles == 3   \* entries of the directory
MaxRows == 2    \* data rows of a file with arbitrary rows
MaxVal == 1     \* numeric tokens are 0..MaxVal (one digit: MaxVal <= 9)

\* An optional argument: None, or a value.
None == <<>>
Some(x) == <<x>>

(***************************************************************************)
(* Strings.                                                                *)
(***************************************************************************)
\* "/"  (os.sep)
Sep == <<47>>
\* the data_dir argument: "d"
DataDir == <<100>>

Name_a_txt == <<97, 46, 116, 120, 116>>          \* "a.txt"
Name_b_txt == <<98, 46, 116, 120, 116>>          \* "b.txt"
Name_a_csv == <<97, 46, 99, 115, 118>>           \* "a.csv"
Name_n_xyz == <<110, 46, 120, 121, 122>>         \* "n.xyz"
Name_hidden == <<46, 116, 120, 116>>             \* ".txt"
Name_empty == <<>>                               \* ""

\* The names an entry of the directory can have.
Names == {Name_a_txt, Name_b_txt, Name_a_csv, Name_n_xyz, Name_hidden}

\* file_patterns = ["*.txt", "*.dat", "*.csv", "*.lbol"]
file_patterns ==
    << <<42, 46, 116, 120, 116>>,
       <<42, 46, 100, 97, 116>>,
       <<42, 46, 99, 115, 118>>,
       <<42, 46, 108, 98, 111, 108>> >>

\* str < str in Python: lexicographic by code point.
RECURSIVE StrLess(_, _)
StrLess(a, b) ==
    IF b = <<>> THEN FALSE
    ELSE IF a = <<>> THEN TRUE
    ELSE IF Head(a) # Head(b) THEN Head(a) < Head(b)
    ELSE StrLess(Tail(a), Tail(b))

\* os.path.join(a, b) (posixpath), for two components.
Join(a, b) ==
    IF b # <<>> /\ Head(b) = Head(Sep) THEN b
    ELSE IF a = <<>> \/ a[Len(a)] = Head(Sep) THEN a \o b
    ELSE a \o Sep \o b

\* os.path.basename(p): what follows the last separator.
RECURSIVE Basename(_)
Basename(p) ==
    IF \A i \in 1..Len(p) : p[i] # Head(Sep) THEN p
    ELSE Basename(Tail(p))

\* fnmatch of a name against a pattern made of literals and "*".
RECURSIVE FnMatch(_, _)
FnMatch(name, pat) ==
    IF pat = <<>> THEN name = <<>>
    ELSE IF Head(pat) = 42
         THEN \E k \in 0..Len(name) :
                 FnMatch(SubSeq(name, k + 1, Len(name)), Tail(pat))
         ELSE /\ name # <<>>
              /\ Head(name) = Head(pat)
              /\ FnMatch(Tail(name), Tail(pat))

\* glob's _ishidden: a name that starts with "."
IsHidden(name) == name # <<>> /\ Head(name) = 46

\* The sequences that enumerate the set S once each, in any order.
Orders(S) ==
    {s \in [1..Cardinality(S) -> S] : \A i, j \in DOMAIN s : i # j => s[i] # s[j]}

(***************************************************************************)
(* Files and pandas.read_csv.                                              *)
(*                                                                         *)
(* A file is a sequence of lines and a line a sequence of whitespace-      *)
(* separated tokens.  A token is a number, or text that is not a number.   *)
(* A cell of the parsed frame is a token or NaN (a missing field).         *)
(***************************************************************************)
Num(v) == <<"num", v>>
Str == <<"str", 0>>
NaN == <<"nan", 0>>

IsNum(tok) == tok[1] = "num"

\* names=["time", "L_ubvri", "L_bol", "XEUV<325", "IR>890"]
names == <<"time", "L_ubvri", "L_bol", "XEUV<325", "IR>890">>

\* Position of a column of names.
Col(c) == CHOOSE i \in 1..Len(names) : names[i] = c

RegularFile(lines) == [kind |-> "file", lines |-> lines]
\* A directory entry that is itself a directory: open() raises on it.
Directory == [kind |-> "dir", lines |-> <<>>]

\* A raised exception, and a normal result.
Raised == [raised |-> TRUE, df |-> <<>>]
Returned(df) == [raised |-> FALSE, df |-> df]

\* A row with fewer fields than names is filled with NaN on the right.
PadRow(row) ==
    [i \in 1..Len(names) |-> IF i <= Len(row) THEN row[i] ELSE NaN]

\* A variant of ReadCsv that rejects a row with fewer fields than names.
ReadCsv_Strict(f) ==
    IF f.kind # "file" THEN Raised
    ELSE LET rows == Tail(f.lines)
         IN  IF \E i \in 1..Len(rows) : Len(rows[i]) # Len(names)
             THEN Raised
             ELSE Returned(rows)

\* pd.read_csv(file_path, delim_whitespace=True, skiprows=1, names=[...]) for
\* a file whose first data row has len(names) fields: the first line is
\* skipped, a later row with more fields raises ParserError ("Expected 5
\* fields in line N, saw 6"), a row with fewer fields is padded with NaN.
\* A path that is a directory raises IsADirectoryError.
ReadCsv(f) ==
    IF f.kind # "file" THEN Raised
    ELSE LET rows == Tail(f.lines)
         IN  IF \E i \in 1..Len(rows) : Len(rows[i]) > Len(names)
             THEN Raised
             ELSE Returned([i \in 1..Len(rows) |-> PadRow(rows[i])])

\* The values of a column of a frame.
Column(df, c) == [i \in 1..Len(df) |-> df[i][Col(c)]]

\* A column with a token that is not a number is read as text (dtype object).
IsObject(col) == \E i \in 1..Len(col) : col[i] = Str

\* The text of a token (one digit per number: MaxVal <= 9).
Text(tok) == IF IsNum(tok) THEN <<48 + tok[2]>> ELSE <<120>>

\* The order sort_values uses on the cells of a column: numbers by value and,
\* in a column read as text, str by str.
CellLess(a, b, object) ==
    IF object THEN StrLess(Text(a), Text(b))
    ELSE IsNum(a) /\ (IsNum(b) => a[2] < b[2])

\* A variant of SortOrders that leaves the rows in file order.
SortOrders_Unsorted(df, c) == {[i \in 1..Len(df) |-> i]}

\* df.sort_values(c): the orders of the rows it may return.  The default
\* kind (quicksort) is not stable, so rows with equal keys come in any order.
SortOrders(df, c) ==
    LET col == Column(df, c)
    IN  {p \in Orders(1..Len(df)) :
            \A i, j \in 1..Len(df) :
                i < j => ~CellLess(col[p[j]], col[p[i]], IsObject(col))}

\* 10 ** x
RECURSIVE Pow10(_)
Pow10(x) == IF x = 0 THEN 1 ELSE 10 * Pow10(x - 1)

\* Series.max() (skipna): the largest number of a column; the column has one.
SeriesMax(col) ==
    CHOOSE m \in {col[i][2] : i \in {k \in 1..Len(col) : IsNum(col[k])}} :
        \A i \in 1..Len(col) : IsNum(col[i]) => col[i][2] <= m

\* Series.min() (skipna).
SeriesMin(col) ==
    CHOOSE m \in {col[i][2] : i \in {k \in 1..Len(col) : IsNum(col[k])}} :
        \A i \in 1..Len(col) : IsNum(col[i]) => col[i][2] >= m

\* Series.idxmax() (skipna): the first row, in row order, that holds the
\* maximum.
IdxMax(col) ==
    CHOOSE i \in 1..Len(col) :
        /\ col[i] = Num(SeriesMax(col))
        /\ \A j \in 1..(i - 1) : col[j] # col[i]

(***************************************************************************)
(* What the call prints and shows.                                         *)
(***************************************************************************)
Ev(kind, name, a, b) == [kind |-> kind, name |-> name, a |-> a, b |-> b]

\* The body of the try block (lines 76-116) for one file: p is the row order
\* sort_values returned.  The events end with an "error" event when a
\* statement raised, which the except clause reports.
TryBlock(file_basename, f, p) ==
    LET read == ReadCsv(f)
        df == [i \in 1..Len(p) |-> read.df[p[i]]]
        time == Column(df, "time")
        L_ubvri == Column(df, "L_ubvri")
        linear_lbol == [i \in 1..Len(df) |->
                           IF IsNum(L_ubvri[i]) THEN Num(Pow10(L_ubvri[i][2]))
                           ELSE NaN]
        peak_idx == IdxMax(L_ubvri)
        peak_time == time[peak_idx]
        error == <<Ev("error", file_basename, 0, 0)>>
        preview == <<Ev("preview", <<>>, Len(df), 0)>>
        figure == <<Ev("figure", file_basename, Len(linear_lbol), 0)>>
        header == <<Ev("statistics", file_basename, 0, 0)>>
    IN  IF read.raised THEN error
        \* 10 ** str raises TypeError
        ELSE IF IsObject(L_ubvri) THEN preview \o error
        \* idxmax of a column without a number raises
        ELSE IF \A i \in 1..Len(df) : ~IsNum(L_ubvri[i]) THEN preview \o error
        \* format(str, ".3f") raises ValueError, after plt.show()
        ELSE IF IsObject(time) THEN preview \o figure \o header \o error
        ELSE preview \o figure \o header \o
             << Ev("peak_time", <<>>, peak_time[2], 0),
                Ev("peak_luminosity", <<>>, SeriesMax(L_ubvri), 0),
                Ev("time_range", <<>>, SeriesMin(time), SeriesMax(time)) >>

\* The row orders sort_values may return for a file (one, empty, when the
\* read raised and sort_values is not reached).
RowOrders(f) ==
    IF ReadCsv(f).raised THEN {<<>>} ELSE SortOrders(ReadCsv(f).df, "time")

(***************************************************************************)
(* The state: the directory (which no call changes), the arguments, and    *)
(* the locals and position of the call in progress.                        *)
(***************************************************************************)
VARIABLES
    dir,             \* the entries of data_dir: name -> file
    file_index,      \* argument: None or Some(integer)
    file_name,       \* argument: None or Some(string)
    pc,              \* "idle", "glob" (line 29), "select" (49), "loop" (72)
    file_paths,      \* local
    files_to_plot,   \* local
    pos,             \* position of the for loop of line 72 in files_to_plot
    out,             \* what the call in progress has printed and shown
    history          \* observer: the output of the first call that returned
                     \* and, after it, of the latest

vars == <<dir, file_index, file_name, pc, file_paths, files_to_plot, pos, out,
          history>>

\* os.path.exists(path): data_dir itself (with a trailing separator) and its
\* entries exist.
Exists(path, d) ==
    \/ path = Join(DataDir, <<>>)
    \/ \E n \in DOMAIN d : path = Join(DataDir, n)

\* What open(path) finds.
Entry(path, d) ==
    IF path = Join(DataDir, <<>>) THEN Directory ELSE d[Basename(path)]

\* The paths glob.glob(os.path.join(data_dir, pattern)) returns, as a set:
\* glob returns them in the order the operating system lists the directory.
Glob(d, pattern) ==
    {Join(DataDir, n) :
        n \in {m \in DOMAIN d :
                  FnMatch(m, pattern) /\ (IsHidden(m) => IsHidden(pattern))}}

\* Insertion of a string in a sorted list.
RECURSIVE Insert(_, _)
Insert(x, s) ==
    IF s = <<>> THEN <<x>>
    ELSE IF StrLess(x, Head(s)) THEN <<x>> \o s
    ELSE <<Head(s)>> \o Insert(x, Tail(s))

\* A variant of ListSort that leaves the list as it is.
ListSort_Unsorted(s) == s

\* file_paths.sort()
RECURSIVE ListSort(_)
ListSort(s) == IF s = <<>> THEN <<>> ELSE Insert(Head(s), ListSort(Tail(s)))

\* Lines 46-47: the numbered list of the files found.
Listing(paths) ==
    [i \in 1..Len(paths) |-> Ev("listed", Basename(paths[i]), i, 0)]

\* The result of the selection: the files to plot, or a message and return.
Selected(files) == [ok |-> TRUE, files |-> files, msg |-> <<>>]
Rejected(msg) == [ok |-> FALSE, files |-> <<>>, msg |-> <<msg>>]

\* A variant of FilesToPlot that looks at file_index before file_name.
FilesToPlot_IndexFirst(paths, index, name, d) ==
    IF index # None
    THEN IF 0 <= index[1] /\ index[1] < Len(paths)
         THEN Selected(<<paths[index[1] + 1]>>)
         ELSE Rejected(Ev("invalid_index", <<>>, index[1], Len(paths) - 1))
    ELSE IF name # None
    THEN IF Exists(Join(DataDir, name[1]), d)
         THEN Selected(<<Join(DataDir, name[1])>>)
         ELSE Rejected(Ev("not_found", name[1], 0, 0))
    ELSE Selected(paths)

\* A variant of FilesToPlot that takes file_index as a one-based position.
FilesToPlot_OneBased(paths, index, name, d) ==
    IF name # None
    THEN IF Exists(Join(DataDir, name[1]), d)
         THEN Selected(<<Join(DataDir, name[1])>>)
         ELSE Rejected(Ev("not_found", name[1], 0, 0))
    ELSE IF index # None
    THEN IF 1 <= index[1] /\ index[1] <= Len(paths)
         THEN Selected(<<paths[index[1]]>>)
         ELSE Rejected(Ev("invalid_index", <<>>, index[1], Len(paths) - 1))
    ELSE Selected(paths)

\* A variant of FilesToPlot without the lower bound of the index: a negative
\* index counts from the end of the list, as Python's indexing does.
FilesToPlot_NoLowerBound(paths, index, name, d) ==
    IF name # None
    THEN IF Exists(Join(DataDir, name[1]), d)
         THEN Selected(<<Join(DataDir, name[1])>>)
         ELSE Rejected(Ev("not_found", name[1], 0, 0))
    ELSE IF index # None
    THEN IF index[1] < Len(paths) /\ -Len(paths) <= index[1]
         THEN Selected(<<paths[IF index[1] >= 0 THEN index[1] + 1
                                ELSE Len(paths) + index[1] + 1]>>)
         ELSE Rejected(Ev("invalid_index", <<>>, index[1], Len(paths) - 1))
    ELSE Selected(paths)

\* A variant of FilesToPlot that looks file_name up in the files found.
FilesToPlot_NameAmongFound(paths, index, name, d) ==
    IF name # None
    THEN IF \E i \in 1..Len(paths) : paths[i] = Join(DataDir, name[1])
         THEN Selected(<<Join(DataDir, name[1])>>)
         ELSE Rejected(Ev("not_found", name[1], 0, 0))
    ELSE IF index # None
    THEN IF 0 <= index[1] /\ index[1] < Len(paths)
         THEN Selected(<<paths[index[1] + 1]>>)
         ELSE Rejected(Ev("invalid_index", <<>>, index[1], Len(paths) - 1))
    ELSE Selected(paths)

\* Lines 49-69: which files to plot.
FilesToPlot(paths, index, name, d) ==
    IF name # None
    THEN IF Exists(Join(DataDir, name[1]), d)
         THEN Selected(<<Join(DataDir, name[1])>>)
         ELSE Rejected(Ev("not_found", name[1], 0, 0))
    ELSE IF index # None
    THEN IF 0 <= index[1] /\ index[1] < Len(paths)
         THEN Selected(<<paths[index[1] + 1]>>)
         ELSE Rejected(Ev("invalid_index", <<>>, index[1], Len(paths) - 1))
    ELSE Selected(paths)

(***************************************************************************)
(* The inputs: directories and arguments.                                  *)
(***************************************************************************)
\* The first line of every file, which read_csv skips: "#".
TitleLine == <<Str>>

\* A row with the five fields, given its time and L_ubvri.
Row(t, l) == <<t, l, Num(0), Num(0), Num(0)>>

\* The scenario of the documentation: rows (0, 1, ...) and (1, 2, ...).
WellFormed == RegularFile(<<TitleLine, Row(Num(0), Num(1)), Row(Num(1), Num(2))>>)
\* The same with a second row of three tokens.
ShortRow == RegularFile(<<TitleLine, Row(Num(0), Num(1)), <<Num(1), Num(2), Num(2)>> >>)

\* What an entry of a directory with several entries can be.
Catalogue == {WellFormed, ShortRow, Directory}

Numbers == {Num(v) : v \in 0..MaxVal}
\* The first data row has the five fields; numbers, or text in time or L_ubvri.
FirstRows ==
    {Row(t, l) : t \in Numbers, l \in Numbers}
        \cup {Row(Str, Num(0)), Row(Num(0), Str), Row(Str, Str)}
\* Later rows: also rows of one field (no L_ubvri), rows of three fields
\* (with the largest L_ubvri), and a row of six fields.
LaterRows ==
    FirstRows
        \cup {<<t>> : t \in Numbers}
        \cup {<<t, Num(MaxVal), Num(0)>> : t \in Numbers}
        \cup {Row(Num(0), Num(0)) \o <<Num(0)>>}

\* The data rows of a file with arbitrary rows.
Records ==
    {<<>>} \cup
    UNION {{<<r>> \o s : r \in FirstRows, s \in [1..(n - 1) -> LaterRows]} :
              n \in 1..MaxRows}

\* Directories of up to MaxFiles entries from the catalogue.
CatalogueDirs ==
    UNION {[S -> Catalogue] : S \in {T \in SUBSET Names : Cardinality(T) <= MaxFiles}}
\* Directories with the one file a.txt, with arbitrary rows.
RecordDirs ==
    {[n \in {Name_a_txt} |-> RegularFile(<<TitleLine>> \o rows)] : rows \in Records}

IndexArgs == {None} \cup {Some(i) : i \in (-1)..MaxFiles}
NameArgs == {None, Some(Name_empty), Some(Name_a_txt), Some(Name_n_xyz)}

Init ==
    /\ \/ /\ dir \in CatalogueDirs
          /\ file_index \in IndexArgs
          /\ file_name \in NameArgs
       \/ /\ dir \in RecordDirs
          /\ file_index = None
          /\ file_name = None
    /\ pc = "idle"
    /\ file_paths = <<>>
    /\ files_to_plot = <<>>
    /\ pos = 0
    /\ out = <<>>
    /\ history = <<>>

(***************************************************************************)
(* The steps of a call.                                                    *)
(***************************************************************************)
\* The call returns: its locals are gone, its output is what it printed.
ReturnWith(output) ==
    /\ pc' = "idle"
    /\ history' = IF history = <<>> THEN <<output>> ELSE <<history[1], output>>
    /\ out' = <<>>
    /\ file_paths' = <<>>
    /\ files_to_plot' = <<>>
    /\ pos' = 0

\* plot_bolometric_curve(data_dir, file_index, file_name) is called, for the
\* first time or again, with the same arguments.
Call ==
    /\ pc = "idle"
    /\ pc' = "glob"
    /\ UNCHANGED <<dir, file_index, file_name, file_paths, files_to_plot, pos,
                   out, history>>

\* A variant of Found that goes on when no file was found.
Found_NoReturn(paths) ==
    [return |-> FALSE,
     msg |-> <<Ev("found", <<>>, Len(paths), 0)>> \o Listing(paths)]

\* Lines 39-47: the count, then the return when no file was found, else the
\* list of the files.
Found(paths) ==
    IF paths = <<>>
    THEN [return |-> TRUE,
          msg |-> <<Ev("found", <<>>, 0, 0), Ev("no_files", <<>>, 0, 0)>>]
    ELSE [return |-> FALSE,
          msg |-> <<Ev("found", <<>>, Len(paths), 0)>> \o Listing(paths)]

\* Lines 29-47: the four globs, each in any order, their concatenation
\* sorted, and the report.
Discover ==
    /\ pc = "glob"
    /\ \E g1 \in Orders(Glob(dir, file_patterns[1])),
          g2 \in Orders(Glob(dir, file_patterns[2])),
          g3 \in Orders(Glob(dir, file_patterns[3])),
          g4 \in Orders(Glob(dir, file_patterns[4])) :
          LET paths == ListSort(g1 \o g2 \o g3 \o g4)
          IN  IF Found(paths).return
              THEN ReturnWith(Found(paths).msg)
              ELSE /\ file_paths' = paths
                   /\ out' = Found(paths).msg
                   /\ pc' = "select"
                   /\ UNCHANGED <<files_to_plot, pos, history>>
    /\ UNCHANGED <<dir, file_index, file_name>>

\* Lines 49-69.
Select ==
    /\ pc = "select"
    /\ LET s == FilesToPlot(file_paths, file_index, file_name, dir)
       IN  IF s.ok
           THEN /\ files_to_plot' = s.files
                /\ pos' = 1
                /\ pc' = "loop"
                /\ UNCHANGED <<file_paths, out, history>>
           ELSE ReturnWith(out \o s.msg)
    /\ UNCHANGED <<dir, file_index, file_name>>

\* A variant of ProcessFile without the except clause: an exception ends the
\* call.
ProcessFile_Propagate ==
    /\ pc = "loop"
    /\ pos <= Len(files_to_plot)
    /\ LET file_path == files_to_plot[pos]
           file_basename == Basename(file_path)
       IN  \E p \in RowOrders(Entry(file_path, dir)) :
              LET events == TryBlock(file_basename, Entry(file_path, dir), p)
                  printed == out \o <<Ev("processing", file_basename, 0, 0)>>
              IN  IF events[Len(events)].kind = "error"
                  THEN ReturnWith(printed \o SubSeq(events, 1, Len(events) - 1))
                  ELSE /\ out' = printed \o events
                       /\ pos' = pos + 1
                       /\ UNCHANGED <<pc, file_paths, files_to_plot, history>>
    /\ UNCHANGED <<dir, file_index, file_name>>

\* Lines 72-116: one turn of the loop.
ProcessFile ==
    /\ pc = "loop"
    /\ pos <= Len(files_to_plot)
    /\ LET file_path == files_to_plot[pos]
           file_basename == Basename(file_path)
       IN  \E p \in RowOrders(Entry(file_path, dir)) :
              out' = out \o <<Ev("processing", file_basename, 0, 0)>>
                         \o TryBlock(file_basename, Entry(file_path, dir), p)
    /\ pos' = pos + 1
    /\ UNCHANGED <<dir, file_index, file_name, pc, file_paths, files_to_plot,
                   history>>

\* The loop is over: the function returns.
Return ==
    /\ pc = "loop"
    /\ pos > Len(files_to_plot)
    /\ ReturnWith(out)
    /\ UNCHANGED <<dir, file_index, file_name>>

Next == Call \/ Discover \/ Select \/ ProcessFile \/ Return

Spec == Init /\ [][Next]_vars

(***************************************************************************)
(* The vocabulary of the properties, defined from the directory and the    *)
(* arguments alone.                                                        *)
(***************************************************************************)
\* The four recognised extensions.
Extensions ==
    {<<46, 116, 120, 116>>, <<46, 100, 97, 116>>, <<46, 99, 115, 118>>,
     <<46, 108, 98, 111, 108>>}

EndsWith(n, e) == Len(n) >= Len(e) /\ SubSeq(n, Len(n) - Len(e) + 1, Len(n)) = e

\* The paths of the entries that match one of the four patterns.
Matching ==
    {DataDir \o Sep \o n :
        n \in {m \in DOMAIN dir : Head(m) # 46 /\ \E e \in Extensions : EndsWith(m, e)}}

\* The strings of a set in ascending lexicographic order.
RECURSIVE Ascending(_)
Ascending(S) ==
    IF S = {} THEN <<>>
    ELSE LET least == CHOOSE x \in S : \A y \in S \ {x} : StrLess(x, y)
         IN  <<least>> \o Ascending(S \ {least})

\* FileSet: the matching paths in ascending lexicographic order.
FileSet == Ascending(Matching)

BaseNames(paths) == [i \in 1..Len(paths) |-> Basename(paths[i])]

\* file_name is supplied and a path exists at join(data_dir, file_name).
NamePresent == file_name # None /\ (file_name[1] = <<>> \/ file_name[1] \in DOMAIN dir)
\* file_index is supplied and 0 <= file_index < len(FileSet).
IndexValid == file_index # None /\ file_index[1] >= 0 /\ file_index[1] < Len(FileSet)
\* Neither file_name nor file_index is supplied.
Batch == file_name = None /\ file_index = None

\* The calls that have returned and whose output is kept: the first and the
\* latest.
Calls == 1..Len(history)

IsProcessing(e) == e.kind = "processing"
\* The base names of the "Processing file" lines of an output, in order.
Attempted(o) ==
    LET a == SelectSeq(o, IsProcessing) IN [i \in 1..Len(a) |-> a[i].name]

\* The kinds of events that parsing, plotting or reporting a file produce.
FileKinds ==
    {"processing", "preview", "figure", "statistics", "peak_time",
     "peak_luminosity", "time_range", "error"}

\* The positions of an output at which the processing of a file starts.
Starts(o) == {i \in 1..Len(o) : o[i].kind = "processing"}
\* The events of the file whose processing starts at position i.
Segment(o, i) ==
    LET later == {j \in Starts(o) : j > i}
        end == IF later = {} THEN Len(o)
               ELSE (CHOOSE j \in later : \A m \in later : j <= m) - 1
    IN  SubSeq(o, i, end)

Kinds(seg) == [i \in 1..Len(seg) |-> seg[i].kind]
Has(seg, kind) == \E i \in 1..Len(seg) : seg[i].kind = kind

\* A file fully processed and reported: preview, figure and all statistics.
FullyReported(seg) ==
    Kinds(seg) = <<"processing", "preview", "figure", "statistics", "peak_time",
                   "peak_luminosity", "time_range">>

\* The data rows of an entry.
DataRows(f) == IF f.kind = "file" THEN Tail(f.lines) ELSE <<>>
AllNumbers(row) == \A i \in 1..Len(row) : IsNum(row[i])
\* Every data row has five numeric tokens, and there is one.
IsWellFormed(f) ==
    /\ f.kind = "file"
    /\ DataRows(f) # <<>>
    /\ \A i \in 1..Len(DataRows(f)) :
          Len(DataRows(f)[i]) = 5 /\ AllNumbers(DataRows(f)[i])
\* A data row has fewer than five tokens.
HasShortRow(f) == \E i \in 1..Len(DataRows(f)) : Len(DataRows(f)[i]) < 5
\* No data row has more than five tokens and every token is a number.
NumericAtMostFive(f) ==
    \A i \in 1..Len(DataRows(f)) :
        Len(DataRows(f)[i]) <= 5 /\ AllNumbers(DataRows(f)[i])

(***************************************************************************)
(* C1.  Selection precedence, for a non-empty FileSet: with file_name      *)
(* supplied the selection is decided by file_name alone (the named path if *)
(* it exists, else nothing), whatever file_index is; without file_name and *)
(* with file_index, by file_index alone; with neither, the selected files  *)
(* are exactly the whole FileSet.                                          *)
(***************************************************************************)
C1_SelectionPrecedence ==
    \A k \in Calls :
        FileSet # <<>> =>
            Attempted(history[k]) =
                IF file_name # None
                THEN IF NamePresent THEN <<file_name[1]>> ELSE <<>>
                ELSE IF file_index # None
                THEN IF IndexValid
                     THEN <<Basename(FileSet[file_index[1] + 1])>>
                     ELSE <<>>
                ELSE BaseNames(FileSet)

\* A valid name with an out-of-range index: the named file was processed.
C1_Witness ==
    /\ Len(history) >= 1
    /\ FileSet # <<>>
    /\ file_name = Some(Name_a_txt)
    /\ file_index = Some(MaxFiles)
    /\ Attempted(history[1]) = <<Name_a_txt>>

(***************************************************************************)
(* C2.  With no file_name and 0 <= file_index < len(FileSet), exactly one  *)
(* file is processed, and it is the element at zero-based position         *)
(* file_index of FileSet.                                                  *)
(***************************************************************************)
C2_ValidIndex ==
    (file_name = None /\ IndexValid) =>
        \A k \in Calls :
            /\ Cardinality(Starts(history[k])) = 1
            /\ \A i \in Starts(history[k]) :
                  DataDir \o Sep \o history[k][i].name = FileSet[file_index[1] + 1]

\* The last of three files was selected by index 2.
C2_Witness ==
    /\ Len(history) >= 1
    /\ file_name = None
    /\ file_index = Some(2)
    /\ Len(FileSet) = 3
    /\ Attempted(history[1]) = <<Basename(FileSet[3])>>

(***************************************************************************)
(* C3.  With a non-empty FileSet, a file_name that does not exist, or (no  *)
(* file_name and) a file_index outside [0, len(FileSet)), negative ones    *)
(* included, makes the call print its diagnostic (for the index, with the  *)
(* upper bound len(FileSet) - 1) and return, and no file is parsed,        *)
(* plotted or reported.                                                    *)
(***************************************************************************)
C3_InvalidSelection ==
    \A k \in Calls :
        LET o == history[k]
            badName == file_name # None /\ ~NamePresent
            badIndex == file_name = None /\ file_index # None /\ ~IndexValid
        IN  (FileSet # <<>> /\ (badName \/ badIndex)) =>
                /\ \A i \in 1..Len(o) : o[i].kind \notin FileKinds
                /\ o[Len(o)] =
                      IF badName THEN Ev("not_found", file_name[1], 0, 0)
                      ELSE Ev("invalid_index", <<>>, file_index[1], Len(FileSet) - 1)

\* A negative index was rejected.
C3_Witness ==
    /\ Len(history) >= 1
    /\ Len(FileSet) >= 2
    /\ file_name = None
    /\ file_index = Some(-1)
    /\ history[1][Len(history[1])].kind = "invalid_index"

(***************************************************************************)
(* C4.  When no entry of data_dir matches any of the four patterns, the    *)
(* call reports zero files and returns without parsing or plotting, for    *)
(* every file_index and file_name.                                         *)
(***************************************************************************)
C4_NoFiles ==
    \A k \in Calls :
        FileSet = <<>> =>
            history[k] = <<Ev("found", <<>>, 0, 0), Ev("no_files", <<>>, 0, 0)>>

\* The directory holds only n.xyz, which file_name names, and an index is
\* given: the call returned.
C4_Witness ==
    /\ Len(history) >= 1
    /\ DOMAIN dir = {Name_n_xyz}
    /\ file_name = Some(Name_n_xyz)
    /\ file_index = Some(0)

(***************************************************************************)
(* C5.  With neither file_name nor file_index, every file of FileSet is    *)
(* attempted exactly once, one at a time, in FileSet order; a failure on a *)
(* file is reported with that file's base name and does not prevent the    *)
(* attempt on a later file; the call returns.                              *)
(***************************************************************************)
C5_BatchOrder ==
    Batch =>
        /\ \A k \in Calls :
              /\ Attempted(history[k]) = BaseNames(FileSet)
              /\ \A i \in Starts(history[k]) :
                    LET seg == Segment(history[k], i)
                    IN  \A j \in 1..Len(seg) :
                           seg[j].kind = "error" =>
                               j = Len(seg) /\ seg[j].name = seg[1].name
        /\ pc = "loop" =>
              Attempted(out) = BaseNames(SubSeq(FileSet, 1, pos - 1))

\* The first of three files failed and the two after it were attempted.
C5_Witness ==
    /\ Batch
    /\ Len(history) >= 1
    /\ Len(FileSet) = 3
    /\ Has(Segment(history[1], CHOOSE i \in Starts(history[1]) :
                                   history[1][i].name = Basename(FileSet[1])),
           "error")
    /\ Len(Attempted(history[1])) = 3

(***************************************************************************)
(* C6 as stated.  Whenever file_name is supplied and a path exists at      *)
(* join(data_dir, file_name), exactly that one path is processed, whether  *)
(* or not it is a member of FileSet.                                       *)
(***************************************************************************)
C6_NameHonoured_Original ==
    NamePresent => \A k \in Calls : Attempted(history[k]) = <<file_name[1]>>

(***************************************************************************)
(* C6, amended.  Whenever FileSet is not empty, file_name is supplied and  *)
(* a path exists at join(data_dir, file_name), exactly that one path is    *)
(* processed, whether or not it is a member of FileSet.                    *)
(***************************************************************************)
C6_NameHonoured ==
    (FileSet # <<>> /\ NamePresent) =>
        \A k \in Calls :
            /\ Cardinality(Starts(history[k])) = 1
            /\ \A i \in Starts(history[k]) : history[k][i].name = file_name[1]

\* n.xyz exists, is not in the non-empty FileSet, and was processed.
C6_Witness ==
    /\ Len(history) >= 1
    /\ FileSet # <<>>
    /\ file_name = Some(Name_n_xyz)
    /\ Name_n_xyz \in DOMAIN dir
    /\ \A i \in 1..Len(FileSet) : Basename(FileSet[i]) # Name_n_xyz
    /\ Attempted(history[1]) = <<Name_n_xyz>>

C8_Peak ==
    \A k \in Calls : \A i \in Starts(history[k]) :
        LET seg == Segment(history[k], i)
            rows == DataRows(dir[seg[1].name])
            withL == {r \in 1..Len(rows) : Len(rows[r]) >= 2 /\ IsNum(rows[r][2])}
            maxL == CHOOSE m \in {rows[r][2][2] : r \in withL} :
                        \A r \in withL : rows[r][2][2] <= m
            maximal == {r \in withL : rows[r][2][2] = maxL}
            minT == CHOOSE t \in {rows[r][1][2] : r \in maximal} :
                        \A r \in maximal : t <= rows[r][1][2]
        IN  \A j \in 1..Len(seg) :
                /\ seg[j].kind = "peak_luminosity" => seg[j].a = maxL
                /\ seg[j].kind = "peak_time" => seg[j].a = minT

\* Two rows attain the maximum and the later row of the file has the
\* smaller time: its time was reported.
C8_Witness ==
    /\ Len(history) >= 1
    /\ Name_a_txt \in DOMAIN dir
    /\ DataRows(dir[Name_a_txt]) = <<Row(Num(1), Num(1)), Row(Num(0), Num(1))>>
    /\ \E j \in 1..Len(history[1]) :
          history[1][j] = Ev("peak_time", <<>>, 0, 0)

(***************************************************************************)
(* C9.  Two calls with identical arguments and an unchanged directory      *)
(* select the same files in the same order and report identical            *)
(* statistics: the outputs of the calls are equal.                         *)
(***************************************************************************)
C9_Idempotent ==
    \A j, k \in Calls : history[j] = history[k]

\* Two calls have returned, each after reporting two files' statistics.
C9_Witness ==
    /\ Len(history) >= 2
    /\ Cardinality({i \in 1..Len(history[2]) :
                       history[2][i].kind = "time_range"}) >= 2

(***************************************************************************)
(* C10.  For every processed file, a reported error and a displayed figure *)
(* are mutually exclusive, and a displayed figure is followed by the       *)
(* file's statistics.                                                      *)
(***************************************************************************)
C10_FigureExcludesError ==
    \A k \in Calls : \A i \in Starts(history[k]) :
        LET seg == Segment(history[k], i)
        IN  /\ ~(Has(seg, "figure") /\ Has(seg, "error"))
            /\ Has(seg, "figure") => FullyReported(seg)

====
